---- MODULE Spec2Model ----
(***************************************************************************)
(* The school-records data model of api/models.py as a state machine.      *)
(*                                                                         *)
(* The state is the relational store behind the Django models (one table   *)
(* per model, keyed by primary key) plus the enrollment-creation requests  *)
(* that are in flight.  The operations are the writes the models and the   *)
(* admin console (api/admin.py) offer: create, change, change of a         *)
(* list_editable column, and delete with the on_delete rule declared on    *)
(* every ForeignKey / OneToOneField.                                       *)
(***************************************************************************)
EXTENDS Integers, FiniteSets, Sequences, TLC

VARIABLES
    db,         \* db[model][pk] is the stored row of that model
    requests    \* requests[r]: an enrollment-creation request and its position

vars == <<db, requests>>

----------------------------------------------------------------------------
(* Bounds of the model                                                     *)

NumDepartments == 2
NumFaculty == 2
NumStudents == 2
NumCourses == 2
NumOfferings == 3
NumSchedules == 2
MaxEnrollments == 2
NumGrades == 2
NumRequests == 2
MaxSlots == 2
MaxPrerequisites == 4

----------------------------------------------------------------------------
(* Program constants                                                       *)

\* null=True: the stored value of an absent reference
NULL == 0

Models ==
    {"User", "AcademicYear", "Semester", "Department", "Faculty", "Student",
     "Program", "Course", "CourseOffering", "Schedule", "Enrollment", "Grade",
     "DocumentRequest", "Feedback", "Course_prerequisites", "Assessment",
     "AssessmentScore", "CourseEvaluation"}

\* Enrollment.STATUS_CHOICES
EnrollmentStatus == {"PENDING", "APPROVED", "ENROLLED", "DROPPED", "COMPLETED"}

\* Enrollment.status default
EnrollmentStatusDefault == "PENDING"

\* DocumentRequest.REQUEST_STATUS_CHOICES
RequestStatus == {"PENDING", "PROCESSING", "READY", "CLAIMED", "CANCELLED"}

\* DocumentRequest.status default
RequestStatusDefault == "PENDING"

\* Feedback.STATUS_CHOICES
FeedbackStatus == {"PENDING", "REVIEWED", "RESOLVED", "CLOSED"}

\* Feedback.status default
FeedbackStatusDefault == "PENDING"

\* The primary keys a table may hold
Ids(m) ==
    CASE m = "User" -> 1..(NumStudents + NumFaculty)
      [] m = "Department" -> 1..NumDepartments
      [] m = "Faculty" -> 1..NumFaculty
      [] m = "Student" -> 1..NumStudents
      [] m = "Course" -> 1..NumCourses
      [] m = "CourseOffering" -> 1..NumOfferings
      [] m = "Schedule" -> 1..NumSchedules
      [] m = "Enrollment" -> 1..MaxEnrollments
      [] m = "Grade" -> 1..NumGrades
      [] m = "Course_prerequisites" -> 1..MaxPrerequisites
      [] OTHER -> 1..2

RequestIds == 1..NumRequests

----------------------------------------------------------------------------
(* The relations: one definition per ForeignKey / OneToOneField            *)

CASCADE == "CASCADE"
SET_NULL == "SET_NULL"

FK(model, field, to, on_delete, null) ==
    [model |-> model, field |-> field, to |-> to, on_delete |-> on_delete,
     null |-> null]

Semester_academic_year == FK("Semester", "academic_year", "AcademicYear", CASCADE, FALSE)

Department_head == FK("Department", "head", "Faculty", SET_NULL, TRUE)

Faculty_user == FK("Faculty", "user", "User", CASCADE, FALSE)

\* Faculty.department declared with on_delete=models.CASCADE
Faculty_department_Cascade ==
    FK("Faculty", "department", "Department", CASCADE, TRUE)

Faculty_department == FK("Faculty", "department", "Department", SET_NULL, TRUE)

Student_user == FK("Student", "user", "User", CASCADE, FALSE)

Student_department == FK("Student", "department", "Department", SET_NULL, TRUE)

Program_department == FK("Program", "department", "Department", CASCADE, FALSE)

Course_department == FK("Course", "department", "Department", SET_NULL, TRUE)

\* CourseOffering.course declared with on_delete=models.SET_NULL, null=True
CourseOffering_course_SetNull ==
    FK("CourseOffering", "course", "Course", SET_NULL, TRUE)

CourseOffering_course == FK("CourseOffering", "course", "Course", CASCADE, FALSE)

CourseOffering_semester == FK("CourseOffering", "semester", "Semester", CASCADE, FALSE)

\* CourseOffering.faculty declared with on_delete=models.CASCADE
CourseOffering_faculty_Cascade ==
    FK("CourseOffering", "faculty", "Faculty", CASCADE, TRUE)

CourseOffering_faculty == FK("CourseOffering", "faculty", "Faculty", SET_NULL, TRUE)

Schedule_course_offering == FK("Schedule", "course_offering", "CourseOffering", CASCADE, FALSE)

Enrollment_student == FK("Enrollment", "student", "Student", CASCADE, FALSE)

Enrollment_course_offering == FK("Enrollment", "course_offering", "CourseOffering", CASCADE, FALSE)

Grade_enrollment == FK("Grade", "enrollment", "Enrollment", CASCADE, FALSE)

DocumentRequest_student == FK("DocumentRequest", "student", "Student", CASCADE, FALSE)

Feedback_student == FK("Feedback", "student", "Student", CASCADE, FALSE)

Feedback_responded_by == FK("Feedback", "responded_by", "User", SET_NULL, TRUE)

\* Course.prerequisites: the rows of the ManyToManyField's table hold the
\* course (from_course) and its prerequisite (to_course)
Course_prerequisites_from_course ==
    FK("Course_prerequisites", "from_course", "Course", CASCADE, FALSE)

Course_prerequisites_to_course ==
    FK("Course_prerequisites", "to_course", "Course", CASCADE, FALSE)

Assessment_course_offering ==
    FK("Assessment", "course_offering", "CourseOffering", CASCADE, FALSE)

AssessmentScore_assessment ==
    FK("AssessmentScore", "assessment", "Assessment", CASCADE, FALSE)

\* AssessmentScore.enrollment declared with on_delete=models.DO_NOTHING
AssessmentScore_enrollment_DoNothing ==
    FK("AssessmentScore", "enrollment", "Enrollment", "DO_NOTHING", FALSE)

AssessmentScore_enrollment ==
    FK("AssessmentScore", "enrollment", "Enrollment", CASCADE, FALSE)

CourseEvaluation_enrollment ==
    FK("CourseEvaluation", "enrollment", "Enrollment", CASCADE, FALSE)

ForeignKeys ==
    {Semester_academic_year, Department_head, Faculty_user, Faculty_department,
     Student_user, Student_department, Program_department, Course_department,
     CourseOffering_course, CourseOffering_semester, CourseOffering_faculty,
     Schedule_course_offering, Enrollment_student, Enrollment_course_offering,
     Grade_enrollment, DocumentRequest_student, Feedback_student,
     Feedback_responded_by, Course_prerequisites_from_course,
     Course_prerequisites_to_course, Assessment_course_offering,
     AssessmentScore_assessment, AssessmentScore_enrollment,
     CourseEvaluation_enrollment}

\* The edges declared on one model
FkEdgesOf(m) == {e \in ForeignKeys : e.model = m}

----------------------------------------------------------------------------
(* Uniqueness constraints of the storage layer                             *)

Semester_unique_together == {"academic_year", "semester_type"}

CourseOffering_unique_together == {"course", "semester", "section"}

Enrollment_unique_together == {"student", "course_offering"}

AssessmentScore_unique_together == {"assessment", "enrollment"}

\* The ManyToManyField's table holds each (course, prerequisite) once
Course_prerequisites_unique_together == {"from_course", "to_course"}

\* The enrollment of Grade and CourseEvaluation declared as a ForeignKey:
\* unique_together only
UniqueSets_ForeignKeyOnly(m) ==
    CASE m = "Semester" -> {Semester_unique_together}
      [] m = "CourseOffering" -> {CourseOffering_unique_together}
      [] m = "Enrollment" -> {Enrollment_unique_together}
      [] m = "AssessmentScore" -> {AssessmentScore_unique_together}
      [] m = "Course_prerequisites" -> {Course_prerequisites_unique_together}
      [] OTHER -> {}

\* The sets of columns that carry a UNIQUE constraint: unique_together, and
\* the column of every OneToOneField
UniqueSets(m) ==
    CASE m = "Semester" -> {Semester_unique_together}
      [] m = "CourseOffering" -> {CourseOffering_unique_together}
      [] m = "Enrollment" -> {Enrollment_unique_together}
      [] m = "Faculty" -> {{"user"}}
      [] m = "Student" -> {{"user"}}
      [] m = "Grade" -> {{"enrollment"}}
      [] m = "CourseEvaluation" -> {{"enrollment"}}
      [] m = "AssessmentScore" -> {AssessmentScore_unique_together}
      [] m = "Course_prerequisites" -> {Course_prerequisites_unique_together}
      [] OTHER -> {}

----------------------------------------------------------------------------
(* The store: what every INSERT, UPDATE and DELETE does                    *)

\* The smallest primary key the table has not in use
NextPk(d, m) ==
    CHOOSE p \in Ids(m) \ DOMAIN d[m] : \A q \in Ids(m) \ DOMAIN d[m] : p <= q

\* The table is at the bound of the model
Full(d, m) == Ids(m) \subseteq DOMAIN d[m]

\* FOREIGN KEY / NOT NULL constraints on a row about to be written
FkOk(d, m, row) ==
    \A e \in FkEdgesOf(m) :
        IF row[e.field] = NULL THEN e.null ELSE row[e.field] \in DOMAIN d[e.to]

\* UNIQUE constraints on a row about to be written as primary key self
UniqueOk(d, m, row, self) ==
    \A u \in UniqueSets(m) :
        \A p \in DOMAIN d[m] \ {self} :
            \E f \in u : d[m][p][f] # row[f]

\* The uniqueness rule kept in the application only: no UNIQUE constraint
ConstraintsOk_NoUnique(d, m, row, self) == FkOk(d, m, row)

\* INSERT / UPDATE: the constraints decide whether the row is stored
ConstraintsOk(d, m, row, self) == FkOk(d, m, row) /\ UniqueOk(d, m, row, self)

Insert(d, m, row) ==
    [d EXCEPT ![m] =
        [p \in DOMAIN d[m] \cup {NextPk(d, m)} |->
            IF p \in DOMAIN d[m] THEN d[m][p] ELSE row]]

\* UPDATE of one stored row
Update(d, m, pk, row) == [d EXCEPT ![m][pk] = row]

\* The rows that refer to one of objs along edge e
Referrers(d, objs, e) ==
    {<<e.model, p>> : p \in {q \in DOMAIN d[e.model] :
        /\ d[e.model][q][e.field] # NULL
        /\ <<e.to, d[e.model][q][e.field]>> \in objs}}

\* One round of the deletion collector: the rows on CASCADE edges join
CascadeStep(d, objs) ==
    objs \cup UNION {Referrers(d, objs, e) :
                        e \in {k \in ForeignKeys : k.on_delete = CASCADE}}

RECURSIVE Collect(_, _)
Collect(d, objs) ==
    LET next == CascadeStep(d, objs)
    IN  IF next = objs THEN objs ELSE Collect(d, next)

\* A surviving row after the delete: SET_NULL edges into deleted rows are nulled
Nullified(d, m, pk, deleted) ==
    [f \in DOMAIN d[m][pk] |->
        IF \E e \in FkEdgesOf(m) :
              /\ e.field = f
              /\ e.on_delete = SET_NULL
              /\ d[m][pk][f] # NULL
              /\ <<e.to, d[m][pk][f]>> \in deleted
        THEN NULL
        ELSE d[m][pk][f]]

\* DELETE of a set of rows with everything the collector gathers
Delete(d, objs) ==
    LET deleted == Collect(d, objs)
    IN  [m \in Models |->
            [pk \in {p \in DOMAIN d[m] : <<m, p>> \notin deleted} |->
                Nullified(d, m, pk, deleted)]]

----------------------------------------------------------------------------
(* The rows: the columns of each model that the integrity rules read       *)

UserRow == [is_active |-> TRUE]

AcademicYearRow(active) == [is_active |-> active]

SemesterRow(year, type) ==
    [academic_year |-> year, semester_type |-> type, is_active |-> FALSE]

DepartmentRow(head) == [head |-> head]

FacultyRow(user, department) == [user |-> user, department |-> department]

StudentRow(user, department) == [user |-> user, department |-> department]

ProgramRow(department) == [department |-> department]

CourseRow(department) == [department |-> department]

CourseOfferingRow(course, semester, faculty, section, max_slots, enrolled_count) ==
    [course |-> course, semester |-> semester, faculty |-> faculty,
     section |-> section, max_slots |-> max_slots,
     enrolled_count |-> enrolled_count]

\* CourseOffering.available_slots
available_slots(offering) == offering.max_slots - offering.enrolled_count

ScheduleRow(course_offering) == [course_offering |-> course_offering]

EnrollmentRow(student, course_offering, status) ==
    [student |-> student, course_offering |-> course_offering,
     status |-> status]

\* midterm_grade, final_grade, date_submitted are null=True, final_rating is
\* blank=True: a Grade is stored with nothing posted
GradeRow(enrollment) ==
    [enrollment |-> enrollment, midterm_grade |-> NULL, final_grade |-> NULL,
     final_rating |-> "", date_submitted |-> NULL]

\* claimed_date is null=True, blank=True
DocumentRequestRow(student, status) ==
    [student |-> student, status |-> status, claimed_date |-> NULL]

FeedbackRow(student, status) ==
    [student |-> student, status |-> status, responded_by |-> NULL]

PrerequisiteRow(from_course, to_course) ==
    [from_course |-> from_course, to_course |-> to_course]

AssessmentRow(course_offering) == [course_offering |-> course_offering]

AssessmentScoreRow(assessment, enrollment, score) ==
    [assessment |-> assessment, enrollment |-> enrollment, score |-> score]

CourseEvaluationRow(enrollment) == [enrollment |-> enrollment]

----------------------------------------------------------------------------
(* A populated store the operations start from: calendar, org structure    *)
(* and catalog are configured, nothing is enrolled yet                     *)

Sections == <<"A", "B", "C", "D">>

Configured(offerings, slots) ==
    [m \in Models |->
        CASE m = "User" -> [pk \in Ids("User") |-> UserRow]
          [] m = "AcademicYear" -> [pk \in {1} |-> AcademicYearRow(TRUE)]
          [] m = "Semester" -> [pk \in {1} |-> SemesterRow(1, "1ST")]
          [] m = "Department" ->
                [pk \in Ids("Department") |-> DepartmentRow(NULL)]
          [] m = "Faculty" ->
                [pk \in Ids("Faculty") |-> FacultyRow(NumStudents + pk, NULL)]
          [] m = "Student" -> [pk \in Ids("Student") |-> StudentRow(pk, NULL)]
          [] m = "Course" -> [pk \in Ids("Course") |-> CourseRow(NULL)]
          [] m = "CourseOffering" ->
                [pk \in offerings |->
                    CourseOfferingRow(((pk - 1) % NumCourses) + 1, 1, NULL,
                                      Sections[pk], slots, 0)]
          [] OTHER -> [pk \in {} |-> NULL]]

----------------------------------------------------------------------------
(* Creating an Enrollment: the request is validated against the store and  *)
(* then written; other requests run between the two steps                  *)

IdleRequest ==
    [pc |-> "idle", student |-> NULL, course_offering |-> NULL,
     response |-> "none"]

\* Model validation before the write: the referenced rows exist
\* (ModelChoiceField) and validate_unique finds no row with the same key
FormValid(d, m, row, self) == FkOk(d, m, row) /\ UniqueOk(d, m, row, self)

\* The request arrives and its data is validated
ValidateEnrollment(r, s, o) ==
    /\ requests[r].pc = "idle"
    /\ LET row == EnrollmentRow(s, o, EnrollmentStatusDefault)
       IN  requests' = [requests EXCEPT ![r] =
               IF FormValid(db, "Enrollment", row, NULL)
               THEN [pc |-> "validated", student |-> s, course_offering |-> o,
                     response |-> "none"]
               ELSE [pc |-> "done", student |-> s, course_offering |-> o,
                     response |-> IF FkOk(db, "Enrollment", row)
                                  THEN "unique_violation"
                                  ELSE "invalid_choice"]]
    /\ UNCHANGED db

\* The validated request is written: INSERT under the store's constraints
InsertEnrollment(r) ==
    /\ requests[r].pc = "validated"
    /\ ~Full(db, "Enrollment")
    /\ LET row == EnrollmentRow(requests[r].student,
                                requests[r].course_offering,
                                EnrollmentStatusDefault)
       IN  IF ConstraintsOk(db, "Enrollment", row, NULL)
           THEN /\ db' = Insert(db, "Enrollment", row)
                /\ requests' = [requests EXCEPT ![r].pc = "done",
                                                ![r].response = "created"]
           ELSE /\ db' = db
                /\ requests' = [requests EXCEPT ![r].pc = "done",
                                                ![r].response = "integrity_error"]

\* The response is delivered; the slot takes the next request
Respond(r) ==
    /\ requests[r].pc = "done"
    /\ requests' = [requests EXCEPT ![r] = IdleRequest]
    /\ UNCHANGED db

----------------------------------------------------------------------------
(* Changes of stored rows                                                  *)

\* Enrollment change: student / course_offering of a stored row
ChangeEnrollment(e, s, o) ==
    /\ e \in DOMAIN db["Enrollment"]
    /\ LET row == [db["Enrollment"][e] EXCEPT !.student = s,
                                              !.course_offering = o]
       IN  /\ row # db["Enrollment"][e]
           /\ ConstraintsOk(db, "Enrollment", row, e)
           /\ db' = Update(db, "Enrollment", e, row)
    /\ UNCHANGED requests

\* EnrollmentAdmin.list_editable = ('status',): any choice may be stored
ChangeEnrollmentStatus(e, status) ==
    /\ e \in DOMAIN db["Enrollment"]
    /\ status \in EnrollmentStatus
    /\ status # db["Enrollment"][e].status
    /\ db' = Update(db, "Enrollment", e,
                    [db["Enrollment"][e] EXCEPT !.status = status])
    /\ UNCHANGED requests

\* CourseOfferingAdmin 'Capacity': max_slots and enrolled_count are two
\* independent PositiveIntegerField inputs
ChangeCapacity(o, max_slots, enrolled_count) ==
    /\ o \in DOMAIN db["CourseOffering"]
    /\ max_slots >= 0
    /\ enrolled_count >= 0
    /\ <<max_slots, enrolled_count>> #
          <<db["CourseOffering"][o].max_slots,
            db["CourseOffering"][o].enrolled_count>>
    /\ db' = Update(db, "CourseOffering", o,
                    [db["CourseOffering"][o] EXCEPT
                        !.max_slots = max_slots,
                        !.enrolled_count = enrolled_count])
    /\ UNCHANGED requests

----------------------------------------------------------------------------
(* Deletes                                                                 *)

DeleteRow(m, pk) ==
    /\ pk \in DOMAIN db[m]
    /\ db' = Delete(db, {<<m, pk>>})
    /\ UNCHANGED requests

DeleteDepartment(d) == DeleteRow("Department", d)

DeleteFaculty(f) == DeleteRow("Faculty", f)

DeleteStudent(s) == DeleteRow("Student", s)

DeleteCourse(c) == DeleteRow("Course", c)

DeleteCourseOffering(o) == DeleteRow("CourseOffering", o)

DeleteSchedule(k) == DeleteRow("Schedule", k)

DeleteEnrollment(e) == DeleteRow("Enrollment", e)

DeleteGrade(g) == DeleteRow("Grade", g)

----------------------------------------------------------------------------------------------------------------------------------------------------
(* Enrollment and capacity                                                 *)

Init ==
    /\ db = Configured({1}, MaxSlots)
    /\ requests = [r \in RequestIds |-> IdleRequest]

Next ==
    \/ \E r \in RequestIds, s \in Ids("Student"),
          o \in DOMAIN db["CourseOffering"] : ValidateEnrollment(r, s, o)
    \/ \E r \in RequestIds : InsertEnrollment(r)
    \/ \E r \in RequestIds : Respond(r)
    \/ \E e \in Ids("Enrollment"), st \in EnrollmentStatus :
          ChangeEnrollmentStatus(e, st)
    \/ \E o \in DOMAIN db["CourseOffering"], m \in 0..MaxSlots,
          c \in 0..MaxSlots : ChangeCapacity(o, m, c)
    \/ \E e \in Ids("Enrollment") : DeleteEnrollment(e)
    \/ \E s \in Ids("Student") : DeleteStudent(s)

Spec == Init /\ [][Next]_vars

\* The stored Enrollment rows of offering o that are enrolled
Enrolled(o) ==
    {e \in DOMAIN db["Enrollment"] :
        /\ db["Enrollment"][e].course_offering = o
        /\ db["Enrollment"][e].status = "ENROLLED"}

\* C1: every CourseOffering has 0 <= enrolled_count <= max_slots, that is,
\* available_slots is never negative, in every reachable state.
C1_EnrolledCountWithinMaxSlots ==
    \A o \in DOMAIN db["CourseOffering"] :
        /\ 0 <= db["CourseOffering"][o].enrolled_count
        /\ db["CourseOffering"][o].enrolled_count <= db["CourseOffering"][o].max_slots
        /\ available_slots(db["CourseOffering"][o]) >= 0

\* The write of request r is attempted in this step
Written(r) == requests[r].pc = "validated" /\ requests'[r].pc = "done"

\* C2: an Enrollment written against an offering whose available_slots is
\* <= 0 at that moment (and that no other constraint rejects) is answered
\* with a capacity-exceeded error, stores no row and leaves enrolled_count
\* as it was.
C2_FullOfferingRejectsEnrollment ==
    [][\A r \in RequestIds :
        LET o == requests[r].course_offering
            row == EnrollmentRow(requests[r].student, o, EnrollmentStatusDefault)
        IN  (/\ Written(r)
             /\ ConstraintsOk(db, "Enrollment", row, NULL)
             /\ available_slots(db["CourseOffering"][o]) <= 0)
            => (/\ requests'[r].response = "capacity_exceeded"
                /\ db'["Enrollment"] = db["Enrollment"]
                /\ db'["CourseOffering"][o].enrolled_count =
                       db["CourseOffering"][o].enrolled_count)]_vars

\* C5: a step that takes an Enrollment from ENROLLED to DROPPED lowers its
\* offering's enrolled_count by exactly 1; a step on an Enrollment that is
\* already DROPPED and stays so does not lower it again.
C5_DropDecrementsOnce ==
    [][\A e \in DOMAIN db["Enrollment"] \cap DOMAIN db'["Enrollment"] :
        LET o == db["Enrollment"][e].course_offering
        IN  /\ (/\ db["Enrollment"][e].status = "ENROLLED"
                /\ db'["Enrollment"][e].status = "DROPPED")
               => db'["CourseOffering"][o].enrolled_count =
                     db["CourseOffering"][o].enrolled_count - 1
            /\ (/\ db["Enrollment"][e].status = "DROPPED"
                /\ db'["Enrollment"][e] = db["Enrollment"][e]
                /\ db'["Enrollment"] = db["Enrollment"])
               => db'["CourseOffering"][o].enrolled_count >=
                     db["CourseOffering"][o].enrolled_count]_vars

\* C6: in every reachable state each offering's enrolled_count is the number
\* of stored Enrollments of that offering that are enrolled (accepted and not
\* dropped), also after Enrollment rows are deleted directly or with their
\* Student.
C6_EnrolledCountIsActiveEnrollments ==
    \A o \in DOMAIN db["CourseOffering"] :
        db["CourseOffering"][o].enrolled_count = Cardinality(Enrolled(o))

----------------------------------------------------------------------------
(* Uniqueness of (student, course_offering)                                *)

NextUnique ==
    \/ \E r \in RequestIds, s \in Ids("Student"),
          o \in DOMAIN db["CourseOffering"] : ValidateEnrollment(r, s, o)
    \/ \E r \in RequestIds : InsertEnrollment(r)
    \/ \E r \in RequestIds : Respond(r)
    \/ \E e \in Ids("Enrollment"), s \in Ids("Student"),
          o \in DOMAIN db["CourseOffering"] : ChangeEnrollment(e, s, o)
    \/ \E e \in Ids("Enrollment") : DeleteEnrollment(e)

SpecUnique == Init /\ [][NextUnique]_vars

\* The stored Enrollment rows of one (student, course_offering) pair
EnrollmentsOf(d, s, o) ==
    {e \in DOMAIN d["Enrollment"] :
        /\ d["Enrollment"][e].student = s
        /\ d["Enrollment"][e].course_offering = o}

\* C4: in every reachable state there is at most one Enrollment row per
\* (student, course_offering) pair, and a create that completes for a pair
\* that already has a row is answered with a uniqueness violation and adds
\* no row, also when the creates of one pair run concurrently.
C4_OneEnrollmentPerPair ==
    /\ [](\A s \in Ids("Student"), o \in Ids("CourseOffering") :
            Cardinality(EnrollmentsOf(db, s, o)) <= 1)
    /\ [][\A r \in RequestIds :
            (/\ requests[r].pc # "done"
             /\ requests'[r].pc = "done"
             /\ EnrollmentsOf(db, requests'[r].student,
                              requests'[r].course_offering) # {})
            => (/\ requests'[r].response \in
                      {"unique_violation", "integrity_error"}
                /\ db' = db)]_vars

\* Two creates of one pair were in flight together and the store rejected
\* the second write
C4_Witness ==
    \E r1, r2 \in RequestIds :
        /\ requests[r1].pc = "done"
        /\ requests[r1].response = "created"
        /\ requests[r2].pc = "done"
        /\ requests[r2].response = "integrity_error"
        /\ requests[r1].student = requests[r2].student
        /\ requests[r1].course_offering = requests[r2].course_offering
        /\ Cardinality(EnrollmentsOf(db, requests[r1].student,
                                     requests[r1].course_offering)) = 1

----------------------------------------------------------------------------
(* The race for the last open slot: every offering has max_slots = 1 and   *)
(* enrolled_count = 0, and each request is one enrollment attempt          *)

InitRace ==
    /\ db = Configured(Ids("CourseOffering"), 1)
    /\ requests = [r \in RequestIds |-> IdleRequest]

NextRace ==
    \/ \E r \in RequestIds, s \in Ids("Student"),
          o \in DOMAIN db["CourseOffering"] : ValidateEnrollment(r, s, o)
    \/ \E r \in RequestIds : InsertEnrollment(r)

SpecRace == InitRace /\ [][NextRace]_vars

\* C3: when two requests have enrolled different students into the same
\* offering that had exactly one open slot, exactly one of them succeeded,
\* the other received capacity-exceeded, and enrolled_count is 1.
C3_ExactlyOneTakesLastSlot ==
    \A r1, r2 \in RequestIds :
        (/\ r1 # r2
         /\ requests[r1].pc = "done"
         /\ requests[r2].pc = "done"
         /\ requests[r1].course_offering = requests[r2].course_offering
         /\ requests[r1].student # requests[r2].student)
        => (/\ {requests[r1].response, requests[r2].response} =
                  {"created", "capacity_exceeded"}
            /\ db["CourseOffering"][requests[r1].course_offering].enrolled_count = 1)

----------------------------------------------------------------------------
(* Deleting in the catalog: every offering has its course, schedules,      *)
(* enrollments and grades stored                                           *)

\* The rows the populated store holds, by primary key
CourseOf(o) == ((o - 1) % NumCourses) + 1
OfferingOfSchedule(k) == ((k - 1) % NumOfferings) + 1
StudentOfEnrollment(e) == ((e - 1) % NumStudents) + 1
OfferingOfEnrollment(e) == ((e - 1) % NumOfferings) + 1
EnrollmentOfGrade(g) == ((g - 1) % MaxEnrollments) + 1

InitCatalog ==
    /\ db = [Configured(Ids("CourseOffering"), MaxSlots) EXCEPT
                !["Schedule"] =
                    [k \in Ids("Schedule") |-> ScheduleRow(OfferingOfSchedule(k))],
                !["Enrollment"] =
                    [e \in Ids("Enrollment") |->
                        EnrollmentRow(StudentOfEnrollment(e),
                                      OfferingOfEnrollment(e), "ENROLLED")],
                !["Grade"] =
                    [g \in Ids("Grade") |-> GradeRow(EnrollmentOfGrade(g))]]
    /\ requests = [r \in RequestIds |-> IdleRequest]

NextCatalog ==
    \/ \E c \in Ids("Course") : DeleteCourse(c)
    \/ \E o \in Ids("CourseOffering") : DeleteCourseOffering(o)
    \/ \E k \in Ids("Schedule") : DeleteSchedule(k)
    \/ \E e \in Ids("Enrollment") : DeleteEnrollment(e)
    \/ \E g \in Ids("Grade") : DeleteGrade(g)
    \/ \E s \in Ids("Student") : DeleteStudent(s)

SpecCatalog == InitCatalog /\ [][NextCatalog]_vars

\* What hangs on course c in store d
OfferingsOf(d, c) ==
    {o \in DOMAIN d["CourseOffering"] : d["CourseOffering"][o].course = c}
SchedulesOf(d, c) ==
    {k \in DOMAIN d["Schedule"] :
        d["Schedule"][k].course_offering \in OfferingsOf(d, c)}
EnrollmentsIn(d, c) ==
    {e \in DOMAIN d["Enrollment"] :
        d["Enrollment"][e].course_offering \in OfferingsOf(d, c)}
GradesIn(d, c) ==
    {g \in DOMAIN d["Grade"] : d["Grade"][g].enrollment \in EnrollmentsIn(d, c)}

\* Table m after the step is table m before it without the rows in gone
Without(m, gone) ==
    /\ DOMAIN db'[m] = DOMAIN db[m] \ gone
    /\ \A pk \in DOMAIN db'[m] : db'[m][pk] = db[m][pk]

\* C7: a step that deletes a Course removes every CourseOffering of it, every
\* Schedule and Enrollment of those offerings and the Grade of each of those
\* Enrollments, and leaves every other row of every table as it was.
C7_CourseDeleteCascades ==
    [][\A c \in DOMAIN db["Course"] :
        c \notin DOMAIN db'["Course"] =>
            /\ Without("Course", {c})
            /\ Without("CourseOffering", OfferingsOf(db, c))
            /\ Without("Schedule", SchedulesOf(db, c))
            /\ Without("Enrollment", EnrollmentsIn(db, c))
            /\ Without("Grade", GradesIn(db, c))
            /\ \A m \in Models \ {"Course", "CourseOffering", "Schedule",
                                  "Enrollment", "Grade"} : db'[m] = db[m]]_vars

\* Course 1 has been deleted from the populated store: its offerings, their
\* schedules, enrollments and grades are gone, everything else is stored
C7_Witness ==
    /\ DOMAIN db["Course"] = Ids("Course") \ {1}
    /\ DOMAIN db["CourseOffering"] =
          {o \in Ids("CourseOffering") : CourseOf(o) # 1}
    /\ DOMAIN db["Schedule"] =
          {k \in Ids("Schedule") : CourseOf(OfferingOfSchedule(k)) # 1}
    /\ DOMAIN db["Enrollment"] =
          {e \in Ids("Enrollment") : CourseOf(OfferingOfEnrollment(e)) # 1}
    /\ DOMAIN db["Grade"] =
          {g \in Ids("Grade") :
              CourseOf(OfferingOfEnrollment(EnrollmentOfGrade(g))) # 1}
    /\ DOMAIN db["Student"] = Ids("Student")
    /\ DOMAIN db["Grade"] # Ids("Grade")
    /\ DOMAIN db["Schedule"] # Ids("Schedule")
    /\ DOMAIN db["Grade"] # {}
    /\ DOMAIN db["Schedule"] # {}

----------------------------------------------------------------------------
(* Deleting in the organisation: departments have heads, faculty, students *)
(* and courses have departments, offerings have faculty                    *)

HeadOf(d) == (((d - 1) \div 2) % NumFaculty) + 1
DepartmentOf(pk) == ((pk - 1) % NumDepartments) + 1
FacultyOf(o) == ((o - 1) % NumFaculty) + 1

InitOrg ==
    /\ db = [Configured(Ids("CourseOffering"), MaxSlots) EXCEPT
                !["Department"] =
                    [d \in Ids("Department") |-> DepartmentRow(HeadOf(d))],
                !["Faculty"] =
                    [f \in Ids("Faculty") |->
                        FacultyRow(NumStudents + f, DepartmentOf(f))],
                !["Student"] =
                    [s \in Ids("Student") |-> StudentRow(s, DepartmentOf(s))],
                !["Course"] =
                    [c \in Ids("Course") |-> CourseRow(DepartmentOf(c))],
                !["CourseOffering"] =
                    [o \in Ids("CourseOffering") |->
                        CourseOfferingRow(CourseOf(o), 1, FacultyOf(o),
                                          Sections[o], MaxSlots, 0)]]
    /\ requests = [r \in RequestIds |-> IdleRequest]

NextOrg ==
    \/ \E d \in Ids("Department") : DeleteDepartment(d)
    \/ \E f \in Ids("Faculty") : DeleteFaculty(f)
    \/ \E s \in Ids("Student") : DeleteStudent(s)
    \/ \E c \in Ids("Course") : DeleteCourse(c)
    \/ \E o \in Ids("CourseOffering") : DeleteCourseOffering(o)

SpecOrg == InitOrg /\ [][NextOrg]_vars

\* Department.head is a ForeignKey with related_name 'headed_department':
\* the departments faculty f heads in store d
headed_department(d, f) ==
    {x \in DOMAIN d["Department"] : d["Department"][x].head = f}

\* The rows of table m in store d whose field refers to pk
Referring(d, m, field, pk) == {x \in DOMAIN d[m] : d[m][x][field] = pk}

\* Every row of m that referred to pk through field is stored after the
\* step, with that field null and nothing else changed
SurvivesNulled(m, field, pk) ==
    \A x \in Referring(db, m, field, pk) :
        /\ x \in DOMAIN db'[m]
        /\ db'[m][x] = [db[m][x] EXCEPT ![field] = NULL]

\* C8 as stated: after a step that deletes Department D whose head is F,
\* F is stored and heads no department.
C8_HeadHeadsNoDepartment ==
    [][\A d \in DOMAIN db["Department"] :
        (d \notin DOMAIN db'["Department"] /\ db["Department"][d].head # NULL)
        => LET F == db["Department"][d].head
           IN  /\ F \in DOMAIN db'["Faculty"]
               /\ headed_department(db', F) = {}]_vars

\* C8: after a step that deletes Department D whose head is F, F is stored,
\* F heads exactly the departments it headed before other than D, and F's row
\* is as before except that its department is null if it was D.
C8_HeadSurvivesDepartment ==
    [][\A d \in DOMAIN db["Department"] :
        (d \notin DOMAIN db'["Department"] /\ db["Department"][d].head # NULL)
        => LET F == db["Department"][d].head
           IN  /\ F \in DOMAIN db'["Faculty"]
               /\ headed_department(db', F) = headed_department(db, F) \ {d}
               /\ db'["Faculty"][F] =
                     IF db["Faculty"][F].department = d
                     THEN [db["Faculty"][F] EXCEPT !.department = NULL]
                     ELSE db["Faculty"][F]]_vars

\* Department 1, headed by its own member faculty 1, has been deleted:
\* faculty 1 is stored without a department and still heads department 2
C8_Witness ==
    /\ HeadOf(1) = 1 /\ HeadOf(2) = 1 /\ DepartmentOf(1) = 1
    /\ 1 \notin DOMAIN db["Department"]
    /\ 1 \in DOMAIN db["Faculty"]
    /\ db["Faculty"][1].department = NULL
    /\ headed_department(db, 1) = {2}

----------------------------------------------------------------------------
(* Status changes of document requests, feedback and enrollments           *)

\* DocumentRequestAdmin.list_editable = ('status',): any choice may be stored
ChangeDocumentRequestStatus(q, status) ==
    /\ q \in DOMAIN db["DocumentRequest"]
    /\ status \in RequestStatus
    /\ status # db["DocumentRequest"][q].status
    /\ db' = Update(db, "DocumentRequest", q,
                    [db["DocumentRequest"][q] EXCEPT !.status = status])
    /\ UNCHANGED requests

\* FeedbackAdmin.list_editable = ('status',): any choice may be stored
ChangeFeedbackStatus(b, status) ==
    /\ b \in DOMAIN db["Feedback"]
    /\ status \in FeedbackStatus
    /\ status # db["Feedback"][b].status
    /\ db' = Update(db, "Feedback", b,
                    [db["Feedback"][b] EXCEPT !.status = status])
    /\ UNCHANGED requests

InitLifecycle ==
    /\ db = [Configured({1}, MaxSlots) EXCEPT
                !["DocumentRequest"] =
                    [q \in Ids("DocumentRequest") |->
                        DocumentRequestRow(StudentOfEnrollment(q),
                                           RequestStatusDefault)],
                !["Feedback"] =
                    [b \in Ids("Feedback") |->
                        FeedbackRow(StudentOfEnrollment(b),
                                    FeedbackStatusDefault)],
                !["Enrollment"] =
                    [e \in {1} |-> EnrollmentRow(1, 1, EnrollmentStatusDefault)]]
    /\ requests = [r \in RequestIds |-> IdleRequest]

NextLifecycle ==
    \/ \E q \in Ids("DocumentRequest"), status \in RequestStatus :
          ChangeDocumentRequestStatus(q, status)
    \/ \E b \in Ids("Feedback"), status \in FeedbackStatus :
          ChangeFeedbackStatus(b, status)
    \/ \E e \in Ids("Enrollment"), status \in EnrollmentStatus :
          ChangeEnrollmentStatus(e, status)

SpecLifecycle == InitLifecycle /\ [][NextLifecycle]_vars

\* The states the specification calls terminal
TerminalStatus(m) ==
    CASE m = "DocumentRequest" -> {"CLAIMED", "CANCELLED"}
      [] m = "Feedback" -> {"CLOSED"}
      [] m = "Enrollment" -> {"DROPPED", "COMPLETED"}

\* C10: no step changes the status of a DocumentRequest, Feedback or
\* Enrollment that is in a terminal state.
C10_TerminalStatusIsFinal ==
    [][\A m \in {"DocumentRequest", "Feedback", "Enrollment"} :
        \A pk \in DOMAIN db[m] :
            db[m][pk].status \in TerminalStatus(m) =>
                /\ pk \in DOMAIN db'[m]
                /\ db'[m][pk].status = db[m][pk].status]_vars

\* Enrollment.status as the specification orders it
EnrollmentForward ==
    {<<"PENDING", "APPROVED">>, <<"APPROVED", "ENROLLED">>,
     <<"ENROLLED", "DROPPED">>, <<"ENROLLED", "COMPLETED">>}

\* C11: every step that changes the status of an Enrollment moves it to the
\* next status of pending -> approved -> enrolled -> {dropped | completed};
\* no step stores a non-adjacent or earlier status.
C11_EnrollmentStatusMovesForward ==
    [][\A e \in DOMAIN db["Enrollment"] \cap DOMAIN db'["Enrollment"] :
        db'["Enrollment"][e].status # db["Enrollment"][e].status =>
            <<db["Enrollment"][e].status, db'["Enrollment"][e].status>>
                \in EnrollmentForward]_vars

----------------------------------------------------------------------------
(* Document requests: status and claimed_date                              *)

\* The DateTimeField values written
Dates == {1, 2}

\* DocumentRequest.save(): status and claimed_date are stored as given; no
\* code relates the two columns
SaveDocumentRequest(q, status, claimed_date) ==
    /\ q \in DOMAIN db["DocumentRequest"]
    /\ status \in RequestStatus
    /\ claimed_date \in Dates \cup {NULL}
    /\ LET row == [db["DocumentRequest"][q] EXCEPT
                      !.status = status, !.claimed_date = claimed_date]
       IN  /\ row # db["DocumentRequest"][q]
           /\ ConstraintsOk(db, "DocumentRequest", row, q)
           /\ db' = Update(db, "DocumentRequest", q, row)
    /\ UNCHANGED requests

InitRequests ==
    /\ db = [Configured({1}, MaxSlots) EXCEPT
                !["DocumentRequest"] =
                    [q \in Ids("DocumentRequest") |->
                        DocumentRequestRow(StudentOfEnrollment(q),
                                           RequestStatusDefault)]]
    /\ requests = [r \in RequestIds |-> IdleRequest]

NextRequests ==
    \/ \E q \in Ids("DocumentRequest"), status \in RequestStatus :
          ChangeDocumentRequestStatus(q, status)
    \/ \E q \in Ids("DocumentRequest"), status \in RequestStatus,
          claimed_date \in Dates \cup {NULL} :
          SaveDocumentRequest(q, status, claimed_date)

SpecRequests == InitRequests /\ [][NextRequests]_vars

\* C12: a DocumentRequest with a non-null claimed_date has status CLAIMED in
\* every reachable state, and no step stores a claimed_date on a request
\* unless the step takes it into CLAIMED.
C12_ClaimedDateOnlyWhenClaimed ==
    /\ [](\A q \in DOMAIN db["DocumentRequest"] :
            db["DocumentRequest"][q].claimed_date # NULL =>
                db["DocumentRequest"][q].status = "CLAIMED")
    /\ [][\A q \in DOMAIN db["DocumentRequest"] \cap DOMAIN db'["DocumentRequest"] :
            db'["DocumentRequest"][q].claimed_date # db["DocumentRequest"][q].claimed_date
            => (/\ db["DocumentRequest"][q].status # "CLAIMED"
                /\ db'["DocumentRequest"][q].status = "CLAIMED")]_vars

----------------------------------------------------------------------------
(* Grade and CourseEvaluation: one row per Enrollment                      *)

\* The models with enrollment = OneToOneField(Enrollment)
OneToOneModels == {"Grade", "CourseEvaluation"}

OneToOneRow(m, e) ==
    IF m = "Grade" THEN GradeRow(e) ELSE CourseEvaluationRow(e)

\* A create of a Grade or CourseEvaluation not yet received; response is
\* the answer to the previous one
IdleOneToOneRequest(response) ==
    [pc |-> "idle", model |-> "", enrollment |-> NULL, response |-> response]

\* The create arrives and its data is validated
ValidateOneToOne(r, m, e) ==
    /\ requests[r].pc = "idle"
    /\ LET row == OneToOneRow(m, e)
       IN  requests' = [requests EXCEPT ![r] =
               IF FormValid(db, m, row, NULL)
               THEN [pc |-> "validated", model |-> m, enrollment |-> e,
                     response |-> "none"]
               ELSE IdleOneToOneRequest(IF FkOk(db, m, row)
                                        THEN "unique_violation"
                                        ELSE "invalid_choice")]
    /\ UNCHANGED db

\* The validated create is written under the store's constraints and answered
InsertOneToOne(r) ==
    /\ requests[r].pc = "validated"
    /\ LET m == requests[r].model
           row == OneToOneRow(m, requests[r].enrollment)
       IN  /\ ~Full(db, m)
           /\ IF ConstraintsOk(db, m, row, NULL)
              THEN /\ db' = Insert(db, m, row)
                   /\ requests' = [requests EXCEPT
                                      ![r] = IdleOneToOneRequest("created")]
              ELSE /\ db' = db
                   /\ requests' = [requests EXCEPT
                                      ![r] = IdleOneToOneRequest("integrity_error")]

\* GradeAdmin / CourseEvaluationAdmin change form: the row is moved to
\* another Enrollment
ChangeOneToOne(m, pk, e) ==
    /\ m \in OneToOneModels
    /\ pk \in DOMAIN db[m]
    /\ LET row == [db[m][pk] EXCEPT !.enrollment = e]
       IN  /\ row # db[m][pk]
           /\ ConstraintsOk(db, m, row, pk)
           /\ db' = Update(db, m, pk, row)
    /\ UNCHANGED requests

DeleteCourseEvaluation(v) == DeleteRow("CourseEvaluation", v)

\* The creates that run concurrently: a pair
Concurrent == {1, 2}

InitGrades ==
    /\ db = [Configured({1}, MaxSlots) EXCEPT
                !["Enrollment"] =
                    [e \in Ids("Enrollment") |->
                        EnrollmentRow(StudentOfEnrollment(e), 1, "ENROLLED")]]
    /\ requests = [r \in RequestIds |-> IdleOneToOneRequest("none")]

NextGrades ==
    \/ \E r \in Concurrent, m \in OneToOneModels, e \in Ids("Enrollment") :
          ValidateOneToOne(r, m, e)
    \/ \E r \in Concurrent : InsertOneToOne(r)
    \/ \E m \in OneToOneModels :
          \E pk \in Ids(m), e \in Ids("Enrollment") : ChangeOneToOne(m, pk, e)
    \/ \E e \in Ids("Enrollment") : DeleteEnrollment(e)

SpecGrades == InitGrades /\ [][NextGrades]_vars

\* The rows of model m in store d that refer to Enrollment e
OneToOneOf(d, m, e) == {pk \in DOMAIN d[m] : d[m][pk].enrollment = e}

\* C13: in every reachable state each Enrollment has at most one Grade and
\* at most one CourseEvaluation and every Grade and CourseEvaluation refers
\* to a stored Enrollment; a create written for an Enrollment that has such a
\* row already, or that is not stored, is answered with an error and changes
\* nothing, whatever was validated concurrently.
C13_OneGradeOneEvaluation ==
    /\ [](\A m \in OneToOneModels :
            /\ \A e \in Ids("Enrollment") :
                  Cardinality(OneToOneOf(db, m, e)) <= 1
            /\ \A pk \in DOMAIN db[m] :
                  db[m][pk].enrollment \in DOMAIN db["Enrollment"])
    /\ [][\A r \in RequestIds :
            (/\ requests[r].pc = "validated"
             /\ requests'[r].pc = "idle"
             /\ \/ OneToOneOf(db, requests[r].model, requests[r].enrollment) # {}
                \/ requests[r].enrollment \notin DOMAIN db["Enrollment"])
            => (/\ requests'[r].response = "integrity_error"
                /\ db' = db)]_vars

\* Two creates of a Grade for Enrollment 1 were validated together: the first
\* was written, the second was answered with an error, one Grade is stored
C13_Witness ==
    /\ requests[1].pc = "idle" /\ requests[1].response = "created"
    /\ requests[2].pc = "idle" /\ requests[2].response = "integrity_error"
    /\ 1 \in DOMAIN db["Enrollment"]
    /\ Cardinality(OneToOneOf(db, "Grade", 1)) = 1
    /\ Cardinality(DOMAIN db["Grade"]) = 1
    /\ DOMAIN db["CourseEvaluation"] = {}
    /\ DOMAIN db["Enrollment"] = Ids("Enrollment")

----------------------------------------------------------------------------
(* Assessments, scores and the posted Grade                                *)

\* The DecimalField values written as a score or a grade
Scores == {1, 2}

\* The Grade columns a grade is posted in, with the values written
GradeValues(field) ==
    CASE field = "midterm_grade" -> {NULL, 1}
      [] field = "final_grade" -> {NULL, 1}
      [] field = "final_rating" -> {"", "1.00"}
      [] field = "date_submitted" -> {NULL, 1}

GradeFields == {"midterm_grade", "final_grade", "final_rating", "date_submitted"}

\* The Grade rows of Enrollment e with the score posted as final_grade
WithFinalGrade(d, e, score) ==
    [d EXCEPT !["Grade"] =
        [g \in DOMAIN d["Grade"] |->
            IF d["Grade"][g].enrollment = e
            THEN [d["Grade"][g] EXCEPT !.final_grade = score]
            ELSE d["Grade"][g]]]

\* A save of an AssessmentScore that also writes the score back to the Grade
SaveAssessmentScore_PostsGrade(d, pk, row) ==
    WithFinalGrade(IF pk = NULL THEN Insert(d, "AssessmentScore", row)
                   ELSE Update(d, "AssessmentScore", pk, row),
                   row.enrollment, row.score)

\* AssessmentScore.save(): the row is stored, nothing else is written
SaveAssessmentScore(d, pk, row) ==
    IF pk = NULL THEN Insert(d, "AssessmentScore", row)
    ELSE Update(d, "AssessmentScore", pk, row)

\* AssessmentAdmin add
CreateAssessment(o) ==
    /\ ~Full(db, "Assessment")
    /\ ConstraintsOk(db, "Assessment", AssessmentRow(o), NULL)
    /\ db' = Insert(db, "Assessment", AssessmentRow(o))
    /\ UNCHANGED requests

DeleteAssessment(a) == DeleteRow("Assessment", a)

\* AssessmentScoreAdmin add: assessment and enrollment are two independent
\* choices
RecordAssessmentScore(a, e, score) ==
    /\ ~Full(db, "AssessmentScore")
    /\ score \in Scores
    /\ ConstraintsOk(db, "AssessmentScore", AssessmentScoreRow(a, e, score), NULL)
    /\ db' = SaveAssessmentScore(db, NULL, AssessmentScoreRow(a, e, score))
    /\ UNCHANGED requests

\* AssessmentScoreAdmin change
ChangeAssessmentScore(k, score) ==
    /\ k \in DOMAIN db["AssessmentScore"]
    /\ score \in Scores
    /\ score # db["AssessmentScore"][k].score
    /\ db' = SaveAssessmentScore(db, k,
                [db["AssessmentScore"][k] EXCEPT !.score = score])
    /\ UNCHANGED requests

DeleteAssessmentScore(k) == DeleteRow("AssessmentScore", k)

\* GradeAdmin change: the explicit write of a Grade column
ChangeGrade(g, field, value) ==
    /\ g \in DOMAIN db["Grade"]
    /\ field \in GradeFields
    /\ value \in GradeValues(field)
    /\ value # db["Grade"][g][field]
    /\ db' = Update(db, "Grade", g, [db["Grade"][g] EXCEPT ![field] = value])
    /\ UNCHANGED requests

InitAssessments ==
    /\ db = [Configured(Ids("CourseOffering"), MaxSlots) EXCEPT
                !["Enrollment"] =
                    [e \in Ids("Enrollment") |->
                        EnrollmentRow(StudentOfEnrollment(e),
                                      OfferingOfEnrollment(e), "ENROLLED")],
                !["Grade"] = [g \in {1} |-> GradeRow(EnrollmentOfGrade(g))]]
    /\ requests = [r \in RequestIds |-> IdleRequest]

NextAssessments ==
    \/ \E o \in Ids("CourseOffering") : CreateAssessment(o)
    \/ \E a \in Ids("Assessment") : DeleteAssessment(a)
    \/ \E a \in Ids("Assessment"), e \in Ids("Enrollment"), score \in Scores :
          RecordAssessmentScore(a, e, score)
    \/ \E k \in Ids("AssessmentScore"), score \in Scores :
          ChangeAssessmentScore(k, score)
    \/ \E k \in Ids("AssessmentScore") : DeleteAssessmentScore(k)
    \/ \E g \in Ids("Grade"), field \in GradeFields :
          \E value \in GradeValues(field) : ChangeGrade(g, field, value)

SpecAssessments == InitAssessments /\ [][NextAssessments]_vars

\* C14: a step that records, changes or deletes an AssessmentScore or an
\* Assessment leaves every Grade as it was: midterm_grade, final_grade,
\* final_rating and date_submitted change only in a step that writes the
\* Grade and touches no assessment data.
C14_AssessmentDataLeavesGrade ==
    [][(\/ db'["AssessmentScore"] # db["AssessmentScore"]
        \/ db'["Assessment"] # db["Assessment"])
       => db'["Grade"] = db["Grade"]]_vars

\* A final_grade of 1 is posted for Enrollment 1, and a different score, 2,
\* is recorded for the same Enrollment
C14_Witness ==
    /\ 1 \in DOMAIN db["Grade"]
    /\ db["Grade"][1].enrollment = 1
    /\ db["Grade"][1].final_grade = 1
    /\ db["Grade"][1].date_submitted # NULL
    /\ \E k \in DOMAIN db["AssessmentScore"] :
          /\ db["AssessmentScore"][k].enrollment = 1
          /\ db["AssessmentScore"][k].score = 2

\* C17: in every reachable state the Assessment and the Enrollment of each
\* AssessmentScore belong to the same CourseOffering, and no two
\* AssessmentScores share an (assessment, enrollment) pair.
C17_ScoreWithinOneOffering ==
    /\ \A k \in DOMAIN db["AssessmentScore"] :
          db["Assessment"][db["AssessmentScore"][k].assessment].course_offering =
          db["Enrollment"][db["AssessmentScore"][k].enrollment].course_offering
    /\ \A k, j \in DOMAIN db["AssessmentScore"] :
          (/\ db["AssessmentScore"][k].assessment = db["AssessmentScore"][j].assessment
           /\ db["AssessmentScore"][k].enrollment = db["AssessmentScore"][j].enrollment)
          => k = j

----------------------------------------------------------------------------
(* Course.prerequisites                                                    *)

\* CourseAdmin 'Academic Planning': p is chosen as a prerequisite of c
\* (filter_horizontal offers every Course, c included)
AddPrerequisite(c, p) ==
    /\ ~Full(db, "Course_prerequisites")
    /\ ConstraintsOk(db, "Course_prerequisites", PrerequisiteRow(c, p), NULL)
    /\ db' = Insert(db, "Course_prerequisites", PrerequisiteRow(c, p))
    /\ UNCHANGED requests

\* CourseAdmin 'Academic Planning': a chosen prerequisite is taken out
RemovePrerequisite(k) == DeleteRow("Course_prerequisites", k)

InitPrerequisites ==
    /\ db = Configured({1}, MaxSlots)
    /\ requests = [r \in RequestIds |-> IdleRequest]

NextPrerequisites ==
    \/ \E c, p \in Ids("Course") : AddPrerequisite(c, p)
    \/ \E k \in Ids("Course_prerequisites") : RemovePrerequisite(k)
    \/ \E c \in Ids("Course") : DeleteCourse(c)

SpecPrerequisites == InitPrerequisites /\ [][NextPrerequisites]_vars

\* Course.prerequisites of c in store d
prerequisites(d, c) ==
    {d["Course_prerequisites"][k].to_course :
        k \in {j \in DOMAIN d["Course_prerequisites"] :
                  d["Course_prerequisites"][j].from_course = c}}

\* The courses reached from the courses in seen over prerequisite edges
RECURSIVE PrerequisiteClosure(_, _)
PrerequisiteClosure(d, seen) ==
    LET next == seen \cup UNION {prerequisites(d, c) : c \in seen}
    IN  IF next = seen THEN seen ELSE PrerequisiteClosure(d, next)

\* C15: in every reachable state no Course is reached from itself over
\* prerequisite edges; in particular no Course is its own prerequisite.
C15_PrerequisitesAcyclic ==
    \A c \in DOMAIN db["Course"] :
        c \notin PrerequisiteClosure(db, prerequisites(db, c))

----------------------------------------------------------------------------
(* The calendar: AcademicYear and Semester with their is_active flags      *)

\* Semester.semester_type values used
SemesterTypes == {"1ST", "2ND"}

\* AcademicYearAdmin add: is_active as entered
CreateAcademicYear(active) ==
    /\ ~Full(db, "AcademicYear")
    /\ active \in BOOLEAN
    /\ db' = Insert(db, "AcademicYear", AcademicYearRow(active))
    /\ UNCHANGED requests

\* AcademicYearAdmin.list_editable = ('is_active',): the flag of one row
\* is stored, no other row is written
ChangeAcademicYearActive(y, active) ==
    /\ y \in DOMAIN db["AcademicYear"]
    /\ active \in BOOLEAN
    /\ active # db["AcademicYear"][y].is_active
    /\ db' = Update(db, "AcademicYear", y,
                    [db["AcademicYear"][y] EXCEPT !.is_active = active])
    /\ UNCHANGED requests

DeleteAcademicYear(y) == DeleteRow("AcademicYear", y)

\* SemesterAdmin add
CreateSemester(y, type) ==
    /\ ~Full(db, "Semester")
    /\ type \in SemesterTypes
    /\ ConstraintsOk(db, "Semester", SemesterRow(y, type), NULL)
    /\ db' = Insert(db, "Semester", SemesterRow(y, type))
    /\ UNCHANGED requests

\* SemesterAdmin.list_editable = ('is_active',)
ChangeSemesterActive(t, active) ==
    /\ t \in DOMAIN db["Semester"]
    /\ active \in BOOLEAN
    /\ active # db["Semester"][t].is_active
    /\ db' = Update(db, "Semester", t,
                    [db["Semester"][t] EXCEPT !.is_active = active])
    /\ UNCHANGED requests

DeleteSemester(t) == DeleteRow("Semester", t)

InitCalendar ==
    /\ db = Configured({1}, MaxSlots)
    /\ requests = [r \in RequestIds |-> IdleRequest]

NextCalendar ==
    \/ \E active \in BOOLEAN : CreateAcademicYear(active)
    \/ \E y \in Ids("AcademicYear"), active \in BOOLEAN :
          ChangeAcademicYearActive(y, active)
    \/ \E y \in Ids("AcademicYear") : DeleteAcademicYear(y)
    \/ \E y \in Ids("AcademicYear"), type \in SemesterTypes :
          CreateSemester(y, type)
    \/ \E t \in Ids("Semester"), active \in BOOLEAN :
          ChangeSemesterActive(t, active)
    \/ \E t \in Ids("Semester") : DeleteSemester(t)

SpecCalendar == InitCalendar /\ [][NextCalendar]_vars

\* C16: at most one AcademicYear has is_active = TRUE in every reachable
\* state.
C16_OneActiveAcademicYear ==
    Cardinality({y \in DOMAIN db["AcademicYear"] :
                    db["AcademicYear"][y].is_active}) <= 1

----------------------------------------------------------------------------
(* Creates and deletes of every entity over a store with one row of each   *)
(* model                                                                   *)

\* Student 1 is User 1, Faculty 1 is User 2; every other model has row 1,
\* each reference filled in. Feedback 1 and 2 are of Student 1: User 2
\* responded to the first, the student's own User 1 to the second
Seed ==
    [m \in Models |->
        CASE m = "User" -> [pk \in {1, 2} |-> UserRow]
          [] m = "AcademicYear" -> [pk \in {1} |-> AcademicYearRow(TRUE)]
          [] m = "Semester" -> [pk \in {1} |-> SemesterRow(1, "1ST")]
          [] m = "Department" -> [pk \in {1} |-> DepartmentRow(1)]
          [] m = "Faculty" -> [pk \in {1} |-> FacultyRow(2, 1)]
          [] m = "Student" -> [pk \in {1} |-> StudentRow(1, 1)]
          [] m = "Program" -> [pk \in {1} |-> ProgramRow(1)]
          [] m = "Course" -> [pk \in {1} |-> CourseRow(1)]
          [] m = "CourseOffering" ->
                [pk \in {1} |->
                    CourseOfferingRow(1, 1, 1, Sections[1], MaxSlots, 0)]
          [] m = "Schedule" -> [pk \in {1} |-> ScheduleRow(1)]
          [] m = "Enrollment" ->
                [pk \in {1} |-> EnrollmentRow(1, 1, EnrollmentStatusDefault)]
          [] m = "Grade" -> [pk \in {1} |-> GradeRow(1)]
          [] m = "DocumentRequest" ->
                [pk \in {1} |-> DocumentRequestRow(1, RequestStatusDefault)]
          [] m = "Feedback" ->
                [pk \in {1, 2} |->
                    [FeedbackRow(1, FeedbackStatusDefault) EXCEPT
                        !.responded_by = IF pk = 1 THEN 2 ELSE 1]]
          [] m = "Course_prerequisites" -> [pk \in {1} |-> PrerequisiteRow(1, 1)]
          [] m = "Assessment" -> [pk \in {1} |-> AssessmentRow(1)]
          [] m = "AssessmentScore" ->
                [pk \in {1} |-> AssessmentScoreRow(1, 1, 1)]
          [] m = "CourseEvaluation" -> [pk \in {1} |-> CourseEvaluationRow(1)]]

\* A row of model m is added again with its references as entered before
CreateRow(m, pk) ==
    /\ pk \in DOMAIN Seed[m]
    /\ pk \notin DOMAIN db[m]
    /\ pk = NextPk(db, m)
    /\ ConstraintsOk(db, m, Seed[m][pk], NULL)
    /\ db' = Insert(db, m, Seed[m][pk])
    /\ UNCHANGED requests

InitIntegrity ==
    /\ db = Seed
    /\ requests = [r \in RequestIds |-> IdleRequest]

NextIntegrity ==
    \/ \E m \in Models : \E pk \in DOMAIN Seed[m] : CreateRow(m, pk)
    \/ \E m \in Models : \E pk \in DOMAIN Seed[m] : DeleteRow(m, pk)

SpecIntegrity == InitIntegrity /\ [][NextIntegrity]_vars

\* The rows of table m that the step removes
Removed(m) == DOMAIN db[m] \ DOMAIN db'[m]

\* Row x of e.model refers along edge e to a row that the step removes
RefersToRemoved(e, x) ==
    /\ db[e.model][x][e.field] # NULL
    /\ db[e.model][x][e.field] \in Removed(e.to)

====
